---------------------------- MODULE Spec2Model ----------------------------
(***************************************************************************)
(* The functions of utils.py, and the login procedure of                   *)
(* facebook_crawler.py, as state machines.                                 *)
(*                                                                         *)
(* A string is a sequence of one-character strings.  The state is one call *)
(* site: the arguments (s1 and s2 of the similarity functions, input_str   *)
(* of is_null_whitespace_or_na, date_str and date_format of                *)
(* get_days_from_today, with today_dt the clock that call reads), the      *)
(* function that was called last (fn) and what that call produced          *)
(* (result): a returned value or a raised exception.  Python floats are    *)
(* IEEE-754 binary64 values; they are modelled bit for bit (53-bit         *)
(* significand, round-half-to-even) so that == on floats means what it     *)
(* means in the program.  Each specification draws the arguments of its    *)
(* own functions and leaves the others at rest.                            *)
(*                                                                         *)
(* FacebookCrawler.__try_login is a process: pc is its position, attempt   *)
(* its loop variable i, max_attempt_nbr its parameter, body_text the       *)
(* phrases found in the page text it read last, statuses the values that   *)
(* __get_login_status has returned so far, submissions the number of times *)
(* __login has submitted the credentials, windows the number of browser    *)
(* windows and prompts the number of times the user was asked for the      *)
(* e-mail and the password.                                                *)
(***************************************************************************)
EXTENDS Integers, Sequences, FiniteSets

VARIABLES s1, s2, fn, result, input_str, date_str, date_format, today_dt,
          pc, attempt, max_attempt_nbr, body_text, statuses, submissions,
          windows, prompts

\* the arguments of the calls
args == <<s1, s2, input_str, date_str, date_format, today_dt>>

\* the state of __try_login
login == <<pc, attempt, max_attempt_nbr, body_text, statuses, submissions,
           windows, prompts>>

vars == <<args, fn, result, login>>

(***************************************************************************)
(* Bounds of the model.                                                    *)
(***************************************************************************)
MaxLen == 3

(***************************************************************************)
(* Characters are Unicode code points; a string is a sequence of them.     *)
(***************************************************************************)
\* the character class [\u4e00-\u9fff]
IsCJK(c) == c \in 19968..40959

\* the character class [a-zA-Z]
IsAsciiLetter(c) == c \in 65..90 \/ c \in 97..122

\* \s of the re module and the whitespace of str.strip() and str.split():
\* the ASCII members: \t \n \v \f \r, the separators 0x1c..0x1f, and space
IsSpace(c) == c \in 9..13 \/ c \in 28..32

\* str.upper(), one character (code points below 128 and CJK ideographs)
UpperChar(c) == IF c \in 97..122 THEN c - 32 ELSE c

Max(a, b) == IF a >= b THEN a ELSE b

Min(a, b) == IF a <= b THEN a ELSE b

(***************************************************************************)
(* Natural numbers of any size: big-endian sequences of limbs below Base,  *)
(* without leading zero limbs (<<>> is 0).  A binary64 significand has 53  *)
(* bits; with 15-bit limbs every intermediate product stays below 2^31.    *)
(***************************************************************************)
LimbBits == 15

Base == 2^LimbBits

\* the number of bits of n, 0 <= n < Base^2
BitLen(n) == Cardinality({k \in 0..(2 * LimbBits - 1) : 2^k <= n})

RECURSIVE BNorm(_)
BNorm(a) == IF a = <<>> THEN a ELSE IF a[1] = 0 THEN BNorm(Tail(a)) ELSE a

Front(a) == SubSeq(a, 1, Len(a) - 1)

Last(a) == a[Len(a)]

Zeros(k) == [i \in 1..k |-> 0]

BFromInt(n) == BNorm(<<n \div Base, n % Base>>)

BBitLen(a) == IF a = <<>> THEN 0 ELSE LimbBits * (Len(a) - 1) + BitLen(a[1])

BIsOdd(a) == a /= <<>> /\ Last(a) % 2 = 1

RECURSIVE BMulCarry(_, _, _)
BMulCarry(a, n, carry) ==
    IF a = <<>> THEN (IF carry = 0 THEN <<>> ELSE <<carry>>)
    ELSE LET p == Last(a) * n + carry
         IN  Append(BMulCarry(Front(a), n, p \div Base), p % Base)

\* a * n, 0 <= n < Base
BMulSmall(a, n) == BNorm(BMulCarry(a, n, 0))

RECURSIVE BAddCarry(_, _, _)
BAddCarry(a, b, carry) ==
    IF a = <<>> /\ b = <<>> THEN (IF carry = 0 THEN <<>> ELSE <<carry>>)
    ELSE LET x == IF a = <<>> THEN 0 ELSE Last(a)
             y == IF b = <<>> THEN 0 ELSE Last(b)
             t == x + y + carry
         IN  Append(BAddCarry(IF a = <<>> THEN a ELSE Front(a),
                              IF b = <<>> THEN b ELSE Front(b),
                              t \div Base),
                    t % Base)

BAdd(a, b) == BAddCarry(a, b, 0)

RECURSIVE BSubBorrow(_, _, _)
BSubBorrow(a, b, borrow) ==
    IF a = <<>> THEN <<>>
    ELSE LET y == IF b = <<>> THEN 0 ELSE Last(b)
             t == Last(a) - y - borrow
         IN  Append(BSubBorrow(Front(a), IF b = <<>> THEN b ELSE Front(b),
                               IF t < 0 THEN 1 ELSE 0),
                    IF t < 0 THEN t + Base ELSE t)

\* a - b, a >= b
BSub(a, b) == BNorm(BSubBorrow(a, b, 0))

RECURSIVE BLessAt(_, _, _)
BLessAt(a, b, i) ==
    IF i > Len(a) THEN FALSE
    ELSE IF a[i] /= b[i] THEN a[i] < b[i]
    ELSE BLessAt(a, b, i + 1)

\* a < b
BLess(a, b) ==
    IF Len(a) /= Len(b) THEN Len(a) < Len(b) ELSE BLessAt(a, b, 1)

\* long division by n, 0 < n < Base: [q |-> a div n, r |-> a mod n]
RECURSIVE BDivStep(_, _, _, _, _)
BDivStep(a, n, i, rem, q) ==
    IF i > Len(a) THEN [q |-> BNorm(q), r |-> rem]
    ELSE LET t == rem * Base + a[i]
         IN  BDivStep(a, n, i + 1, t % n, Append(q, t \div n))

BDivSmall(a, n) == BDivStep(a, n, 1, 0, <<>>)

\* a * 2^k
BShl(a, k) ==
    IF a = <<>> THEN a
    ELSE BMulSmall(a, 2^(k % LimbBits)) \o Zeros(k \div LimbBits)

\* a div 2^k
BShr(a, k) ==
    LET w == k \div LimbBits
    IN  IF w >= Len(a) THEN <<>>
        ELSE BDivSmall(SubSeq(a, 1, Len(a) - w), 2^(k % LimbBits)).q

\* a mod 2^k /= 0
BLowNonzero(a, k) ==
    LET w == k \div LimbBits
    IN  IF w >= Len(a) THEN a /= <<>>
        ELSE \/ \E i \in (Len(a) - w + 1)..Len(a) : a[i] /= 0
             \/ a[Len(a) - w] % 2^(k % LimbBits) /= 0

(***************************************************************************)
(* Python float: IEEE-754 binary64.  A value is (-1)^s * m * 2^e with m a  *)
(* 53-bit significand (2^52 <= m < 2^53), or zero.  Every operation is the *)
(* exact result rounded half-to-even.  The exponent range is not modelled: *)
(* the values of this program lie far from overflow and underflow.         *)
(***************************************************************************)
Precision == 53

FZero == [s |-> 0, m |-> <<>>, e |-> 0]

\* (-1)^sign * M * 2^E rounded to the nearest float, ties to even
FRound(sign, M, E) ==
    IF M = <<>> THEN FZero
    ELSE LET L == BBitLen(M)
         IN  IF L <= Precision
             THEN [s |-> sign, m |-> BShl(M, Precision - L), e |-> E - (Precision - L)]
             ELSE LET d       == L - Precision
                      q       == BShr(M, d)
                      guard   == BIsOdd(BShr(M, d - 1))
                      sticky  == BLowNonzero(M, d - 1)
                      roundup == guard /\ (sticky \/ BIsOdd(q))
                      q2      == IF roundup THEN BAdd(q, <<1>>) ELSE q
                  IN  IF BBitLen(q2) > Precision
                      THEN [s |-> sign, m |-> BShr(q2, 1), e |-> E + d + 1]
                      ELSE [s |-> sign, m |-> q2, e |-> E + d]

\* float(n), 0 <= n < Base^2
FFromInt(n) == FRound(0, BFromInt(n), 0)

FNeg(x) == IF x.m = <<>> THEN x ELSE [x EXCEPT !.s = 1 - x.s]

\* x + y
FAdd(x, y) ==
    IF x.m = <<>> THEN y
    ELSE IF y.m = <<>> THEN x
    ELSE LET E  == Min(x.e, y.e)
             mx == BShl(x.m, x.e - E)
             my == BShl(y.m, y.e - E)
         IN  IF x.s = y.s THEN FRound(x.s, BAdd(mx, my), E)
             ELSE IF BLess(mx, my) THEN FRound(y.s, BSub(my, mx), E)
             ELSE FRound(x.s, BSub(mx, my), E)

\* x - y
FSub(x, y) == FAdd(x, FNeg(y))

\* x * n, n an int, 0 <= n < Base
FMulInt(x, n) == FRound(x.s, BMulSmall(x.m, n), x.e)

\* x / n, n an int, 0 < n < Base
FDivInt(x, n) ==
    IF x.m = <<>> THEN FZero
    ELSE LET k == BitLen(n) + 3
             d == BDivSmall(BShl(x.m, k), n)
             N == BAdd(BShl(d.q, 1), IF d.r /= 0 THEN <<1>> ELSE <<>>)
         IN  FRound(x.s, N, x.e - k - 1)

\* x < y
FLess(x, y) ==
    IF x.m = <<>> THEN y.m /= <<>> /\ y.s = 0
    ELSE IF y.m = <<>> THEN x.s = 1
    ELSE IF x.s /= y.s THEN x.s = 1
    ELSE LET E  == Min(x.e, y.e)
             mx == BShl(x.m, x.e - E)
             my == BShl(y.m, y.e - E)
         IN  IF x.s = 0 THEN BLess(mx, my) ELSE BLess(my, mx)

\* max(x, y) of Python: y only when it is greater
FMax(x, y) == IF FLess(x, y) THEN y ELSE x

FOne == FFromInt(1)

(***************************************************************************)
(* levenshtein: the row-reuse dynamic program.                             *)
(***************************************************************************)
\* LevEntry with the test (c1 != c2) lost: a substitution always costs 1
LevEntry_AlwaysSubstitutes(c1, t2, previous_row, current_row, j0) ==
    LET insertions    == previous_row[j0 + 1] + 1
        deletions     == current_row[j0] + 1
        substitutions == previous_row[j0] + 1
    IN  Min(Min(insertions, deletions), substitutions)

\* LevEntry with the test (c1 != c2) inverted: equal characters cost 1
LevEntry_InvertedTest(c1, t2, previous_row, current_row, j0) ==
    LET insertions    == previous_row[j0 + 1] + 1
        deletions     == current_row[j0] + 1
        substitutions == previous_row[j0] + (IF c1 = t2[j0] THEN 1 ELSE 0)
    IN  Min(Min(insertions, deletions), substitutions)

\* the entry that the inner loop body appends to current_row for j = j0 - 1
LevEntry(c1, t2, previous_row, current_row, j0) ==
    LET insertions    == previous_row[j0 + 1] + 1
        deletions     == current_row[j0] + 1
        substitutions == previous_row[j0] + (IF c1 /= t2[j0] THEN 1 ELSE 0)
    IN  Min(Min(insertions, deletions), substitutions)

\* the inner loop, "for j, c2 in enumerate(s2)": current_row holds j + 1
\* entries when the iteration for j begins
RECURSIVE LevInner(_, _, _, _)
LevInner(c1, t2, previous_row, current_row) ==
    IF Len(current_row) > Len(t2) THEN current_row
    ELSE LevInner(c1, t2, previous_row,
                  Append(current_row,
                         LevEntry(c1, t2, previous_row, current_row, Len(current_row))))

\* the outer loop, "for i, c1 in enumerate(s1)"; loop holds the loop variables
\* when the iteration for i begins
RECURSIVE LevOuter(_, _, _)
LevOuter(t1, t2, loop) ==
    IF loop.i >= Len(t1) THEN loop.previous_row
    ELSE LevOuter(t1, t2,
                  [i |-> loop.i + 1,
                   previous_row |-> LevInner(t1[loop.i + 1], t2, loop.previous_row,
                                             <<loop.i + 1>>)])

\* levenshtein with a slip in the swap: "return levenshtein(s2, s2)"
levenshtein_SwapSlip(t1, t2) ==
    LET a == IF Len(t1) < Len(t2) THEN t2 ELSE t1
    IN  IF Len(t2) = 0 THEN Len(a)
        ELSE Last(LevOuter(a, t2,
                           [i |-> 0,
                            previous_row |-> [j \in 1..(Len(t2) + 1) |-> j - 1]]))

\* levenshtein with "return 0" for "return len(s1)" when s2 is empty
levenshtein_EmptyIsZero(t1, t2) ==
    LET a == IF Len(t1) < Len(t2) THEN t2 ELSE t1
        b == IF Len(t1) < Len(t2) THEN t1 ELSE t2
    IN  IF Len(b) = 0 THEN 0
        ELSE Last(LevOuter(a, b,
                           [i |-> 0,
                            previous_row |-> [j \in 1..(Len(b) + 1) |-> j - 1]]))

RECURSIVE levenshtein(_, _)
levenshtein(t1, t2) ==
    IF Len(t1) < Len(t2) THEN levenshtein(t2, t1)
    ELSE IF Len(t2) = 0 THEN Len(t1)
    ELSE Last(LevOuter(t1, t2,
                       [i |-> 0,
                        previous_row |-> [j \in 1..(Len(t2) + 1) |-> j - 1]]))

(***************************************************************************)
(* Outcomes of a call: a returned int, a returned float, a returned pair   *)
(* of strings, or a raised exception.                                      *)
(***************************************************************************)
NoResult == [kind |-> "none"]

IntResult(n) == [kind |-> "int", val |-> n]

FloatResult(x) == [kind |-> "float", val |-> x]

Raised(exc) == [kind |-> "raise", exc |-> exc]

\* a returned bool
BoolResult(b) == [kind |-> "bool", val |-> b]

\* the argument pairs of the calls of levenshtein_score made during a call
CallsResult(calls) == [kind |-> "calls", val |-> calls]

\* a returned pair (chinese_text, english_text)
PartsResult(parts) == [kind |-> "parts", val |-> parts]

(***************************************************************************)
(* levenshtein_score                                                       *)
(***************************************************************************)
\* ScoreOfDistance without the complement: "distance / longest"
ScoreOfDistance_NotComplemented(operands) ==
    IF operands.longest = 0 THEN Raised("ZeroDivisionError")
    ELSE FloatResult(FDivInt(FFromInt(operands.distance), operands.longest))

\* "1.0 - distance / longest" of operands that are already evaluated
ScoreOfDistance(operands) ==
    IF operands.longest = 0 THEN Raised("ZeroDivisionError")
    ELSE FloatResult(FSub(FOne, FDivInt(FFromInt(operands.distance), operands.longest)))

\* levenshtein_score dividing by the shorter length: min for max
levenshtein_score_DividesByShorter(t1, t2) ==
    ScoreOfDistance([distance |-> levenshtein(t1, t2),
                     longest  |-> Min(Len(t1), Len(t2))])

levenshtein_score(t1, t2) ==
    ScoreOfDistance([distance |-> levenshtein(t1, t2),
                     longest  |-> Max(Len(t1), Len(t2))])

(***************************************************************************)
(* String helpers of the standard library.                                 *)
(***************************************************************************)
\* the character classes the code scans for: [\u4e00-\u9fff], [a-zA-Z], \S
InClass(class, c) ==
    CASE class = "cjk" -> IsCJK(c)
      [] class = "letter" -> IsAsciiLetter(c)
      [] class = "nonspace" -> ~IsSpace(c)

\* the maximal runs of characters of a class, left to right:
\* re.findall(r'[class]+', t); with the class "nonspace", t.split()
RECURSIVE RunsFrom(_, _, _, _, _)
RunsFrom(class, t, i, run, runs) ==
    IF i > Len(t) THEN (IF run = <<>> THEN runs ELSE Append(runs, run))
    ELSE IF InClass(class, t[i]) THEN RunsFrom(class, t, i + 1, Append(run, t[i]), runs)
    ELSE RunsFrom(class, t, i + 1, <<>>, IF run = <<>> THEN runs ELSE Append(runs, run))

Runs(class, t) == RunsFrom(class, t, 1, <<>>, <<>>)

\* sep.join(parts)
RECURSIVE Join(_, _)
Join(sep, parts) ==
    IF parts = <<>> THEN <<>>
    ELSE IF Len(parts) = 1 THEN parts[1]
    ELSE parts[1] \o sep \o Join(sep, Tail(parts))

\* re.sub(r'\s+', ' ', t)
RECURSIVE SubWhitespace(_, _)
SubWhitespace(t, i) ==
    IF i > Len(t) THEN <<>>
    ELSE IF IsSpace(t[i])
         THEN (IF i > 1 /\ IsSpace(t[i - 1]) THEN <<>> ELSE <<32>>)
              \o SubWhitespace(t, i + 1)
         ELSE <<t[i]>> \o SubWhitespace(t, i + 1)

\* t.upper()
Upper(t) == [i \in 1..Len(t) |-> UpperChar(t[i])]

\* t.strip()
RECURSIVE Strip(_)
Strip(t) ==
    IF t = <<>> THEN t
    ELSE IF IsSpace(t[1]) THEN Strip(Tail(t))
    ELSE IF IsSpace(Last(t)) THEN Strip(Front(t))
    ELSE t

\* t.split(' '): the pieces between single spaces, empty pieces included
RECURSIVE SplitSpaceFrom(_, _, _, _)
SplitSpaceFrom(t, i, piece, pieces) ==
    IF i > Len(t) THEN Append(pieces, piece)
    ELSE IF t[i] = 32 THEN SplitSpaceFrom(t, i + 1, <<>>, Append(pieces, piece))
    ELSE SplitSpaceFrom(t, i + 1, Append(piece, t[i]), pieces)

SplitSpace(t) == SplitSpaceFrom(t, 1, <<>>, <<>>)

\* t.split()
SplitWhitespace(t) == Runs("nonspace", t)

\* set(words)
SetOf(words) == {words[i] : i \in 1..Len(words)}

\* the orders in which a set may be iterated (str hashes are randomized per
\* process, so the iteration order of a set of strings is not fixed)
Orders(S) ==
    LET n == Cardinality(S)
    IN  {f \in [1..n -> S] : \A i, j \in 1..n : f[i] = f[j] => i = j}

(***************************************************************************)
(* A value that is None or a str: None is <<>>, the string t is <<t>>.     *)
(***************************************************************************)
None == <<>>

Str(t) == <<t>>

StrOf(value) == value[1]

(***************************************************************************)
(* is_null_whitespace_or_na                                                *)
(***************************************************************************)
\* "N/A"
NSlashA == <<78, 47, 65>>

\* "NA"
NA == <<78, 65>>

\* is_null_whitespace_or_na without the test "input_str is None" in front:
\* None has no strip()
is_null_whitespace_or_na_NoNoneTest(value) ==
    IF value = None THEN Raised("AttributeError")
    ELSE BoolResult(\/ Strip(StrOf(value)) = <<>>
                    \/ Upper(StrOf(value)) = NSlashA
                    \/ Upper(StrOf(value)) = NA)

\* "or" evaluates its right operand only when the left one is false
is_null_whitespace_or_na(value) ==
    IF value = None THEN BoolResult(TRUE)
    ELSE BoolResult(\/ Strip(StrOf(value)) = <<>>
                    \/ Upper(StrOf(value)) = NSlashA
                    \/ Upper(StrOf(value)) = NA)

(***************************************************************************)
(* datetime.strptime, for formats made of the directives %Y, %m and %d,    *)
(* "%%", whitespace and literal characters.  The format becomes a regular  *)
(* expression that is matched at the start of the string, case ignored,    *)
(* with the alternatives of a directive tried in the order they are        *)
(* written; the first match is taken and must reach the end of the string. *)
(***************************************************************************)
IsDigit(c) == c \in 48..57

\* the regular expression of a directive: its alternatives in order, each a
\* sequence of character sets
\*   Y: \d\d\d\d    m: 1[0-2]|0[1-9]|[1-9]
\*   d: 3[0-1]|[1-2]\d|0[1-9]|[1-9]| [1-9]
DirectiveAlternatives(directive) ==
    CASE directive = "Y" -> << <<48..57, 48..57, 48..57, 48..57>> >>
      [] directive = "m" -> << <<{49}, 48..50>>, <<{48}, 49..57>>, <<49..57>> >>
      [] directive = "d" -> << <<{51}, 48..49>>, <<49..50, 48..57>>, <<{48}, 49..57>>,
                               <<49..57>>, <<{32}, 49..57>> >>

\* the directive letters: Y m d
DirectiveOf(c) ==
    CASE c = 89 -> "Y" [] c = 109 -> "m" [] c = 100 -> "d" [] OTHER -> "bad"

\* the format from position i on as a sequence of items: a directive, a run
\* of whitespace (\s+) or a literal character; "stray" and "bad" mark a
\* format that ends in % or names an unknown directive
RECURSIVE FormatItems(_, _)
FormatItems(format, i) ==
    IF i > Len(format) THEN <<>>
    ELSE IF format[i] = 37
         THEN IF i = Len(format) THEN <<[type |-> "stray"]>>
              ELSE IF format[i + 1] = 37
                   THEN <<[type |-> "literal", char |-> 37]>> \o FormatItems(format, i + 2)
                   ELSE <<[type |-> DirectiveOf(format[i + 1])]>>
                        \o FormatItems(format, i + 2)
    ELSE IF IsSpace(format[i])
         THEN IF i > 1 /\ IsSpace(format[i - 1]) THEN FormatItems(format, i + 1)
              ELSE <<[type |-> "whitespace"]>> \o FormatItems(format, i + 1)
    ELSE <<[type |-> "literal", char |-> format[i]]>> \o FormatItems(format, i + 1)

\* the characters of data from pos on belong to the sets of the alternative
MatchesAt(alternative, data, pos) ==
    /\ pos + Len(alternative) - 1 <= Len(data)
    /\ \A k \in 1..Len(alternative) : data[pos + k - 1] \in alternative[k]

\* the number written in data[from..to], leading space or zeros allowed
RECURSIVE NumberAt(_, _, _)
NumberAt(data, from, to) ==
    IF from > to THEN 0
    ELSE NumberAt(data, from, to - 1) * 10
         + (IF IsDigit(data[to]) THEN data[to] - 48 ELSE 0)

\* the length of the run of whitespace that begins at pos
RECURSIVE SpaceRun(_, _)
SpaceRun(data, pos) ==
    IF pos > Len(data) \/ ~IsSpace(data[pos]) THEN 0 ELSE 1 + SpaceRun(data, pos + 1)

NoMatch == [ok |-> FALSE]

\* re.match of the items from the k-th on against data from pos on, found
\* holding the groups matched so far: the first match in backtracking
\* order.  choice numbers the alternative of the k-th item that is tried
\* next: an alternative of a directive, or for whitespace the length of the
\* run (the longest first).
RECURSIVE Match(_, _, _, _, _, _)
Match(items, k, data, pos, found, choice) ==
    IF k > Len(items) THEN [ok |-> TRUE, end |-> pos - 1, groups |-> found]
    ELSE IF items[k].type = "literal"
         THEN IF pos <= Len(data) /\ UpperChar(data[pos]) = UpperChar(items[k].char)
              THEN Match(items, k + 1, data, pos + 1, found, 1)
              ELSE NoMatch
    ELSE IF items[k].type = "whitespace"
         THEN IF choice > SpaceRun(data, pos) THEN NoMatch
              ELSE LET rest == Match(items, k + 1, data,
                                     pos + SpaceRun(data, pos) - choice + 1, found, 1)
                   IN  IF rest.ok THEN rest
                       ELSE Match(items, k, data, pos, found, choice + 1)
    ELSE IF choice > Len(DirectiveAlternatives(items[k].type)) THEN NoMatch
    ELSE IF ~MatchesAt(DirectiveAlternatives(items[k].type)[choice], data, pos)
         THEN Match(items, k, data, pos, found, choice + 1)
    ELSE LET width == Len(DirectiveAlternatives(items[k].type)[choice])
             rest  == Match(items, k + 1, data, pos + width,
                            [found EXCEPT ![items[k].type] =
                                              NumberAt(data, pos, pos + width - 1)],
                            1)
         IN  IF rest.ok THEN rest
             ELSE Match(items, k, data, pos, found, choice + 1)

\* the groups of a match before any is filled: the defaults of strptime
DefaultGroups == [Y |-> 1900, m |-> 1, d |-> 1]

IsLeap(year) == year % 4 = 0 /\ (year % 100 /= 0 \/ year % 400 = 0)

DaysInMonth(year, month) ==
    IF month = 2 THEN (IF IsLeap(year) THEN 29 ELSE 28)
    ELSE IF month \in {4, 6, 9, 11} THEN 30 ELSE 31

\* date.toordinal(): the number of the day, 1 for 0001-01-01
RECURSIVE DaysBeforeMonth(_, _)
DaysBeforeMonth(year, month) ==
    IF month = 1 THEN 0
    ELSE DaysBeforeMonth(year, month - 1) + DaysInMonth(year, month - 1)

ToOrdinal(date) ==
    (date.year - 1) * 365 + (date.year - 1) \div 4 - (date.year - 1) \div 100
    + (date.year - 1) \div 400 + DaysBeforeMonth(date.year, date.month) + date.day

\* a returned datetime, at midnight
DateResult(groups) ==
    [kind |-> "datetime", val |-> [year |-> groups.Y, month |-> groups.m, day |-> groups.d]]

\* the outcome of a match: the date of its groups, or ValueError when the
\* match fails, stops before the end, or names no date of the calendar
DateOfMatch(found, data) ==
    IF ~found.ok THEN Raised("ValueError")
    ELSE IF found.end /= Len(data) THEN Raised("ValueError")
    ELSE IF found.groups.Y < 1 THEN Raised("ValueError")
    ELSE IF found.groups.d > DaysInMonth(found.groups.Y, found.groups.m)
         THEN Raised("ValueError")
    ELSE DateResult(found.groups)

\* the format names some directive twice: the groups of the regular
\* expression collide
RepeatsDirective(items) ==
    \E j, k \in 1..Len(items) :
        j < k /\ items[j].type = items[k].type /\ items[j].type \in {"Y", "m", "d"}

\* strptime on the items of a format
StrptimeItems(data, items) ==
    IF \E k \in 1..Len(items) : items[k].type \in {"stray", "bad"}
    THEN Raised("ValueError")
    ELSE IF RepeatsDirective(items) THEN Raised("re.error")
    ELSE DateOfMatch(Match(items, 1, data, 1, DefaultGroups, 1), data)

\* datetime.strptime(date_str, date_format)
strptime(data_string, format) ==
    IF data_string = None \/ format = None THEN Raised("TypeError")
    ELSE StrptimeItems(StrOf(data_string), FormatItems(StrOf(format), 1))

(***************************************************************************)
(* get_days_from_today.  today_dt is what datetime.now() returns: a date   *)
(* and the second of the day.                                              *)
(***************************************************************************)
\* numpy.nan: a float that is no number
NaN == [s |-> 0, m |-> <<>>, e |-> 0, nan |-> TRUE]

\* (today_dt - date_dt).days: the difference of the ordinals and the whole
\* days in the difference of the seconds of the day, rounded down; date_dt
\* is at midnight
DaysBetween(today, date) ==
    (ToOrdinal(today) - ToOrdinal(date)) + (today.second - 0) \div 86400

\* get_days_from_today catching ValueError only: "except ValueError:"
DaysOrNan_ValueErrorOnly(today, date_dt) ==
    IF date_dt.kind = "raise"
    THEN (IF date_dt.exc = "ValueError" THEN FloatResult(NaN) ELSE date_dt)
    ELSE IntResult(DaysBetween(today, date_dt.val))

\* the try block with its bare "except:", which catches every exception
DaysOrNan(today, date_dt) ==
    IF date_dt.kind = "raise" THEN FloatResult(NaN)
    ELSE IntResult(DaysBetween(today, date_dt.val))

get_days_from_today(today, date_string, format) ==
    DaysOrNan(today, strptime(date_string, format))

(***************************************************************************)
(* extract_chinese_english_parts                                           *)
(***************************************************************************)
\* extract_chinese_english_parts joining the English runs with '' as well
extract_chinese_english_parts_JoinsWithoutSpace(text) ==
    LET chinese_parts == Runs("cjk", text)
        english_parts == Runs("letter", text)
    IN  [chinese_text |-> Join(<<>>, chinese_parts),
         english_text |-> Join(<<>>, english_parts)]

extract_chinese_english_parts(text) ==
    LET chinese_parts == Runs("cjk", text)
        english_parts == Runs("letter", text)
    IN  [chinese_text |-> Join(<<>>, chinese_parts),
         english_text |-> Join(<<32>>, english_parts)]

(***************************************************************************)
(* mongo_elkan_score                                                       *)
(***************************************************************************)
\* re.sub(r'\s+', ' ', t).upper().strip()
Preprocess(t) == Strip(Upper(SubWhitespace(t, 1)))

TokenSet(t) == SetOf(SplitSpace(Preprocess(t)))

\* "max_score_temp = max(max_score_temp, levenshtein_score(...))", or the
\* exception that the call raised
MaxScore(max_score_temp, sc) ==
    IF sc.kind = "raise" THEN sc ELSE FloatResult(FMax(max_score_temp, sc.val))

\* "for s2_word in s2_set": loop holds the loop variables when the iteration
\* for the j-th word begins, best being max_score_temp or the exception that
\* ended the loop
RECURSIVE MongoInner(_, _, _)
MongoInner(s1_word, s2_order, loop) ==
    IF loop.best.kind = "raise" \/ loop.j > Len(s2_order) THEN loop.best
    ELSE MongoInner(s1_word, s2_order,
                    [j    |-> loop.j + 1,
                     best |-> MaxScore(loop.best.val,
                                       levenshtein_score(s1_word, s2_order[loop.j]))])

\* "score += max_score_temp", or the exception of the inner loop
AddScore(score, best) ==
    IF best.kind = "raise" THEN best ELSE FloatResult(FAdd(score, best.val))

\* "for s1_word in s1_set": loop holds the loop variables when the iteration
\* for the i-th word begins, total being score or the exception that ended
\* the loop
RECURSIVE MongoOuter(_, _, _)
MongoOuter(s1_order, s2_order, loop) ==
    IF loop.total.kind = "raise" \/ loop.i > Len(s1_order) THEN loop.total
    ELSE MongoOuter(s1_order, s2_order,
                    [i     |-> loop.i + 1,
                     total |-> AddScore(loop.total.val,
                                        MongoInner(s1_order[loop.i], s2_order,
                                                   [j |-> 1, best |-> FloatResult(FZero)]))])

\* "score /= len(s2_set)", or the exception of the loops
DivideScore(total, size) ==
    IF total.kind = "raise" THEN total ELSE FloatResult(FDivInt(total.val, size))

\* MongoLoops dividing by the size of the set of the outer loop
MongoLoops_DividesByQuery(s1_order, s2_order) ==
    DivideScore(MongoOuter(s1_order, s2_order, [i |-> 1, total |-> FloatResult(FZero)]), Len(s1_order))

\* the loops and the final division, the two sets iterated in a given order
MongoLoops(s1_order, s2_order) ==
    DivideScore(MongoOuter(s1_order, s2_order, [i |-> 1, total |-> FloatResult(FZero)]), Len(s2_order))

\* the set that is iterated in the outer loop (after the swap)
MongoQuerySet(t1, t2) ==
    IF Cardinality(TokenSet(t1)) > Cardinality(TokenSet(t2))
    THEN TokenSet(t2) ELSE TokenSet(t1)

\* the set that is iterated in the inner loop and whose size divides
MongoReferenceSet(t1, t2) ==
    IF Cardinality(TokenSet(t1)) > Cardinality(TokenSet(t2))
    THEN TokenSet(t1) ELSE TokenSet(t2)

\* every outcome the call can have, over the iteration orders of the sets
mongo_elkan_score(t1, t2) ==
    {MongoLoops(o1, o2) : o1 \in Orders(MongoQuerySet(t1, t2)),
                          o2 \in Orders(MongoReferenceSet(t1, t2))}

\* the calls levenshtein_score(s1_word, s2_word) of the loops: every word of
\* the outer set against every word of the inner set (the loops stop early
\* only at a call that raises)
MongoScoreCalls(t1, t2) ==
    MongoQuerySet(t1, t2) \X MongoReferenceSet(t1, t2)

(***************************************************************************)
(* string_similarity_score                                                 *)
(***************************************************************************)
\* Combine with the plain mean of the two scores for the weighted mean
Combine_PlainMean(score_chi, len_chi, score_eng, len_eng) ==
    IF score_chi.kind = "raise" THEN score_chi
    ELSE IF score_eng.kind = "raise" THEN score_eng
    ELSE IF len_chi + len_eng = 0 THEN Raised("ZeroDivisionError")
    ELSE FloatResult(FDivInt(FAdd(score_chi.val, score_eng.val), 2))

\* Combine with the two weights exchanged
Combine_SwappedWeights(score_chi, len_chi, score_eng, len_eng) ==
    IF score_chi.kind = "raise" THEN score_chi
    ELSE IF score_eng.kind = "raise" THEN score_eng
    ELSE IF len_chi + len_eng = 0 THEN Raised("ZeroDivisionError")
    ELSE FloatResult(FDivInt(FAdd(FMulInt(score_chi.val, len_eng),
                                  FMulInt(score_eng.val, len_chi)),
                             len_chi + len_eng))

\* the last line: the weighted mean of two scores
Combine(score_chi, len_chi, score_eng, len_eng) ==
    IF score_chi.kind = "raise" THEN score_chi
    ELSE IF score_eng.kind = "raise" THEN score_eng
    ELSE IF len_chi + len_eng = 0 THEN Raised("ZeroDivisionError")
    ELSE FloatResult(FDivInt(FAdd(FMulInt(score_chi.val, len_chi),
                                  FMulInt(score_eng.val, len_eng)),
                             len_chi + len_eng))

\* string_similarity_score without the guard "if len_chi > 0"
string_similarity_score_UnguardedChinese(t1, t2) ==
    LET p1      == extract_chinese_english_parts(t1)
        p2      == extract_chinese_english_parts(t2)
        len_chi == Max(Len(p1.chinese_text), Len(p2.chinese_text))
        len_eng == Max(Len(SplitWhitespace(p1.english_text)),
                       Len(SplitWhitespace(p2.english_text)))
        score_chi == levenshtein_score(p1.chinese_text, p2.chinese_text)
        scores_eng == IF len_eng > 0
                      THEN mongo_elkan_score(p1.english_text, p2.english_text)
                      ELSE {FloatResult(FZero)}
    IN  {Combine(score_chi, len_chi, score_eng, len_eng) : score_eng \in scores_eng}

\* every outcome the call can have
string_similarity_score(t1, t2) ==
    LET p1      == extract_chinese_english_parts(t1)
        p2      == extract_chinese_english_parts(t2)
        s1_chi  == p1.chinese_text
        s1_eng  == p1.english_text
        s2_chi  == p2.chinese_text
        s2_eng  == p2.english_text
        len_chi == Max(Len(s1_chi), Len(s2_chi))
        len_eng == Max(Len(SplitWhitespace(s1_eng)), Len(SplitWhitespace(s2_eng)))
        score_chi == IF len_chi > 0 THEN levenshtein_score(s1_chi, s2_chi)
                     ELSE FloatResult(FZero)
        scores_eng == IF len_eng > 0 THEN mongo_elkan_score(s1_eng, s2_eng)
                      ELSE {FloatResult(FZero)}
    IN  {Combine(score_chi, len_chi, score_eng, len_eng) : score_eng \in scores_eng}

\* the calls of levenshtein_score made during string_similarity_score: the
\* direct one on the Chinese parts and those of mongo_elkan_score on the
\* English parts, each behind its guard
SimilarityScoreCalls(t1, t2) ==
    LET p1      == extract_chinese_english_parts(t1)
        p2      == extract_chinese_english_parts(t2)
        len_chi == Max(Len(p1.chinese_text), Len(p2.chinese_text))
        len_eng == Max(Len(SplitWhitespace(p1.english_text)),
                       Len(SplitWhitespace(p2.english_text)))
    IN  (IF len_chi > 0 THEN {<<p1.chinese_text, p2.chinese_text>>} ELSE {})
        \cup (IF len_eng > 0 THEN MongoScoreCalls(p1.english_text, p2.english_text)
              ELSE {})

(***************************************************************************)
(* The inputs: every pair of strings of at most MaxLen characters over a   *)
(* small alphabet (an ASCII letter, a CJK ideograph, a space), and the     *)
(* pairs that the documentation of the functions uses as examples.         *)
(***************************************************************************)
\* "a", U+4E2D, " "
Alphabet == {97, 20013, 32}

RECURSIVE StringsOfLen(_)
StringsOfLen(n) ==
    IF n = 0 THEN {<<>>}
    ELSE {Append(t, c) : t \in StringsOfLen(n - 1), c \in Alphabet}

Strings == UNION {StringsOfLen(n) : n \in 0..MaxLen}

Kitten == <<107, 105, 116, 116, 101, 110>>

Sitting == <<115, 105, 116, 116, 105, 110, 103>>

Flaw == <<102, 108, 97, 119>>

Lawn == <<108, 97, 119, 110>>

NewYork == <<78, 69, 87, 32, 89, 79, 82, 75>>

NewYorkCity == <<78, 69, 87, 32, 89, 79, 82, 75, 32, 67, 73, 84, 89>>

\* "hku"
HkuLower == <<104, 107, 117>>

\* "HKU"
HkuUpper == <<72, 75, 85>>

\* U+9999 U+6E2F U+5927 U+5B78 " HKU"
HongKongU == <<39321, 28207, 22823, 23416, 32, 72, 75, 85>>

\* "ABC"
Abc == <<65, 66, 67>>

\* "XYZ"
Xyz == <<88, 89, 90>>

\* "aaa"
Aaa == <<97, 97, 97>>

\* "a a a"
ASpaced == <<97, 32, 97, 32, 97>>

\* "Hello" U+4E16 U+754C "123"
HelloWorld123 == <<72, 101, 108, 108, 111, 19990, 30028, 49, 50, 51>>

\* "a aa"
AAndAa == <<97, 32, 97, 97>>

\* "a b"
AAndB == <<97, 32, 98>>

Examples == {
    <<Kitten, Sitting>>, <<Flaw, Lawn>>,
    <<NewYork, NewYorkCity>>, <<NewYorkCity, NewYork>>, <<HkuLower, HkuUpper>>,
    <<HongKongU, HongKongU>>, <<Abc, Xyz>>, <<Aaa, ASpaced>>, <<AAndAa, AAndB>>,
    <<HelloWorld123, Abc>>
}

Inputs == (Strings \X Strings) \cup Examples

\* get_days_from_today is not called
DaysAtRest == date_str = None /\ date_format = None /\ today_dt = 0

\* no crawler is being constructed
LoginAtRest ==
    /\ pc = "idle"
    /\ attempt = 0
    /\ max_attempt_nbr = 0
    /\ body_text = {}
    /\ statuses = <<>>
    /\ submissions = 0
    /\ windows = 0
    /\ prompts = 0

Init ==
    /\ \E p \in Inputs : s1 = p[1] /\ s2 = p[2]
    /\ fn = "none"
    /\ result = NoResult
    /\ input_str = None
    /\ DaysAtRest
    /\ LoginAtRest

Call_levenshtein ==
    /\ fn = "none"
    /\ fn' = "levenshtein"
    /\ result' = IntResult(levenshtein(s1, s2))
    /\ UNCHANGED <<args, login>>

Call_levenshtein_score ==
    /\ fn = "none"
    /\ fn' = "levenshtein_score"
    /\ result' = levenshtein_score(s1, s2)
    /\ UNCHANGED <<args, login>>

Call_mongo_elkan_score ==
    /\ fn = "none"
    /\ fn' = "mongo_elkan_score"
    /\ result' \in mongo_elkan_score(s1, s2)
    /\ UNCHANGED <<args, login>>

Call_string_similarity_score ==
    /\ fn = "none"
    /\ fn' = "string_similarity_score"
    /\ result' \in string_similarity_score(s1, s2)
    /\ UNCHANGED <<args, login>>

\* the function has one argument: text is s1
Call_extract_chinese_english_parts ==
    /\ fn = "none"
    /\ fn' = "extract_chinese_english_parts"
    /\ result' = PartsResult(extract_chinese_english_parts(s1))
    /\ UNCHANGED <<args, login>>

\* a call of string_similarity_score observed for its calls of
\* levenshtein_score
Trace_string_similarity_score ==
    /\ fn = "none"
    /\ fn' = "string_similarity_score: calls"
    /\ result' = CallsResult(SimilarityScoreCalls(s1, s2))
    /\ UNCHANGED <<args, login>>

Next ==
    \/ Trace_string_similarity_score
    \/ Call_extract_chinese_english_parts
    \/ Call_levenshtein
    \/ Call_levenshtein_score
    \/ Call_mongo_elkan_score
    \/ Call_string_similarity_score

Spec == Init /\ [][Next]_vars

(***************************************************************************)
(* SpecBlank: the calls of is_null_whitespace_or_na on None and on every   *)
(* string of at most MaxBlankLen characters over the letters of "N/A" in   *)
(* both cases, a space, a tab and another letter.                          *)
(***************************************************************************)
MaxBlankLen == 3

\* n a N A / space tab x
BlankAlphabet == {110, 97, 78, 65, 47, 32, 9, 120}

RECURSIVE BlankStringsOfLen(_)
BlankStringsOfLen(n) ==
    IF n = 0 THEN {<<>>}
    ELSE {Append(t, c) : t \in BlankStringsOfLen(n - 1), c \in BlankAlphabet}

BlankInputs ==
    {None} \cup {Str(t) : t \in UNION {BlankStringsOfLen(n) : n \in 0..MaxBlankLen}}

InitBlank ==
    /\ input_str \in BlankInputs
    /\ s1 = <<>> /\ s2 = <<>>
    /\ fn = "none"
    /\ result = NoResult
    /\ DaysAtRest
    /\ LoginAtRest

Call_is_null_whitespace_or_na ==
    /\ fn = "none"
    /\ fn' = "is_null_whitespace_or_na"
    /\ result' = is_null_whitespace_or_na(input_str)
    /\ UNCHANGED <<args, login>>

NextBlank == Call_is_null_whitespace_or_na

SpecBlank == InitBlank /\ [][NextBlank]_vars

(***************************************************************************)
(* SpecDays: the calls of get_days_from_today.  The date strings are a     *)
(* year, a month and a day written in several ways, joined with or without *)
(* "-", and some other texts; the formats are the default one, others of   *)
(* the same directives, and malformed ones; None stands for an argument    *)
(* that is no string.                                                      *)
(***************************************************************************)
\* "2024" "2023" "1900" "0000"
YearTexts == {<<50, 48, 50, 52>>, <<50, 48, 50, 51>>, <<49, 57, 48, 48>>, <<48, 48, 48, 48>>}

\* "02" "2" "12" "13" "00" "1"
MonthTexts == {<<48, 50>>, <<50>>, <<49, 50>>, <<49, 51>>, <<48, 48>>, <<49>>}

\* "29" "30" "31" "01" "1" " 1" "00" "32"
DayTexts == {<<50, 57>>, <<51, 48>>, <<51, 49>>, <<48, 49>>, <<49>>, <<32, 49>>,
             <<48, 48>>, <<51, 50>>}

\* "" "-"
Separators == {<<>>, <<45>>}

\* "" "abc" "2024" "29022024" "202412311" "2024 02 29" "2024  02" "2024%"
OtherTexts ==
    {<<>>, <<97, 98, 99>>, <<50, 48, 50, 52>>, <<50, 57, 48, 50, 50, 48, 50, 52>>,
     <<50, 48, 50, 52, 49, 50, 51, 49, 49>>,
     <<50, 48, 50, 52, 32, 48, 50, 32, 50, 57>>,
     <<50, 48, 50, 52, 32, 32, 48, 50>>, <<50, 48, 50, 52, 37>>}

DateStrings ==
    {None}
    \cup {Str(y \o sep \o mo \o sep \o d) :
              y \in YearTexts, sep \in Separators, mo \in MonthTexts, d \in DayTexts}
    \cup {Str(t) : t \in OtherTexts}

\* '%Y%m%d', the default of date_format
DefaultDateFormat == <<37, 89, 37, 109, 37, 100>>

\* '%Y-%m-%d' '%d%m%Y' '%Y %m %d' '%Y  %m' '%Y%%' '' '%Q' '%Y%' '%Y%Y'
DateFormats ==
    {None, Str(DefaultDateFormat),
     Str(<<37, 89, 45, 37, 109, 45, 37, 100>>), Str(<<37, 100, 37, 109, 37, 89>>),
     Str(<<37, 89, 32, 37, 109, 32, 37, 100>>), Str(<<37, 89, 32, 32, 37, 109>>),
     Str(<<37, 89, 37, 37>>), Str(<<>>),
     Str(<<37, 81>>), Str(<<37, 89, 37>>), Str(<<37, 89, 37, 89>>)}

\* the values of datetime.now(): the first and the last second of
\* 2024-03-01, 2024-02-29 and 2023-12-31 at noon
Todays ==
    {[year |-> 2024, month |-> 3, day |-> 1, second |-> 0],
     [year |-> 2024, month |-> 3, day |-> 1, second |-> 86399],
     [year |-> 2024, month |-> 2, day |-> 29, second |-> 43200],
     [year |-> 2023, month |-> 12, day |-> 31, second |-> 43200]}

InitDays ==
    /\ date_str \in DateStrings
    /\ date_format \in DateFormats
    /\ today_dt \in Todays
    /\ s1 = <<>> /\ s2 = <<>>
    /\ input_str = None
    /\ fn = "none"
    /\ result = NoResult
    /\ LoginAtRest

Call_get_days_from_today ==
    /\ fn = "none"
    /\ fn' = "get_days_from_today"
    /\ result' = get_days_from_today(today_dt, date_str, date_format)
    /\ UNCHANGED <<args, login>>

NextDays == Call_get_days_from_today

SpecDays == InitDays /\ [][NextDays]_vars

(***************************************************************************)
(* FacebookCrawler.__try_login.  The browser and the site are the          *)
(* environment: every read of the page text may find any of the phrases    *)
(* the code looks for.  The calls of the driver, of time.sleep and of      *)
(* input() return: the elements that the code looks up are on the page.    *)
(***************************************************************************)
\* max_attempt_nbr is the default or any number up to MaxAttempts
MaxAttempts == 4

\* the default of max_attempt_nbr
DefaultMaxAttemptNbr == 5

\* the phrases tested with "in body_text"; the last two stand for the
\* Chinese words of "password" and "incorrect"
Phrases ==
    {"Log in", "human", "login attempt", "password", "incorrect",
     "U+5BC6 U+78BC", "U+4E0D U+6B63 U+78BA"}

\* what a read of the page text can find
BodyTexts == SUBSET Phrases

\* ('human' in body_text) & ('login attempt' in body_text)
IsCaptcha(text) == "human" \in text /\ "login attempt" \in text

IsPasswordIncorrect(text) ==
    \/ "password" \in text /\ "incorrect" \in text
    \/ "U+5BC6 U+78BC" \in text /\ "U+4E0D U+6B63 U+78BA" \in text

\* __get_login_status on a page with this text
get_login_status(text) ==
    IF "Log in" \in text \/ IsCaptcha(text) THEN FALSE ELSE TRUE

\* range(1, max_attempt_nbr + 2)
AttemptRange_OneMore(max) == 1..(max + 1)

\* range(1, max_attempt_nbr + 1)
AttemptRange(max) == 1..max

InitLogin ==
    /\ pc = "start"
    /\ attempt = 0
    /\ max_attempt_nbr \in (0..MaxAttempts) \cup {DefaultMaxAttemptNbr}
    /\ body_text = {}
    /\ statuses = <<>>
    /\ submissions = 0
    /\ windows = 1
    /\ prompts = 0
    /\ s1 = <<>> /\ s2 = <<>>
    /\ input_str = None
    /\ DaysAtRest
    /\ fn = "none"
    /\ result = NoResult

\* the check on entry: return when already logged in
CheckAlreadyLoggedIn ==
    /\ pc = "start"
    /\ \E text \in BodyTexts :
           /\ body_text' = text
           /\ statuses' = Append(statuses, get_login_status(text))
           /\ pc' = IF get_login_status(text) THEN "done" ELSE "credentials"
    /\ UNCHANGED <<attempt, max_attempt_nbr, submissions, windows, prompts>>
    /\ UNCHANGED <<args, fn, result>>

\* __get_email_and_password, which asks the user when FB_EMAIL or
\* FB_PASSWORD is not set, driver.get and the entry of the for loop
GetEmailAndPassword ==
    /\ pc = "credentials"
    /\ \E in_environment \in BOOLEAN :
           prompts' = IF in_environment THEN prompts ELSE prompts + 1
    /\ IF 1 \in AttemptRange(max_attempt_nbr)
       THEN attempt' = 1 /\ pc' = "login"
       ELSE attempt' = attempt /\ pc' = "done"
    /\ UNCHANGED <<max_attempt_nbr, body_text, statuses, submissions, windows>>
    /\ UNCHANGED <<args, fn, result>>

\* __login: the e-mail and the password are typed and the form submitted
Login ==
    /\ pc = "login"
    /\ submissions' = submissions + 1
    /\ pc' = "status"
    /\ UNCHANGED <<attempt, max_attempt_nbr, body_text, statuses, windows, prompts>>
    /\ UNCHANGED <<args, fn, result>>

\* the check after __login: return when logged in
CheckLoginStatus ==
    /\ pc = "status"
    /\ \E text \in BodyTexts :
           /\ body_text' = text
           /\ statuses' = Append(statuses, get_login_status(text))
           /\ pc' = IF get_login_status(text) THEN "done" ELSE "page"
    /\ UNCHANGED <<attempt, max_attempt_nbr, submissions, windows, prompts>>
    /\ UNCHANGED <<args, fn, result>>

\* the rest of the loop body: the error is logged on the last attempt, the
\* page text is read again; on a CAPTCHA page a new window is opened, on a
\* password-incorrect page the e-mail and the password are asked again and
\* "not me" is clicked; then the loop goes on or ends
HandlePage ==
    /\ pc = "page"
    /\ \E text \in BodyTexts :
           /\ body_text' = text
           /\ windows' = IF IsCaptcha(text) THEN windows + 1 ELSE windows
           /\ prompts' = IF ~IsCaptcha(text) /\ IsPasswordIncorrect(text)
                         THEN prompts + 1 ELSE prompts
    /\ IF attempt + 1 \in AttemptRange(max_attempt_nbr)
       THEN attempt' = attempt + 1 /\ pc' = "login"
       ELSE attempt' = attempt /\ pc' = "done"
    /\ UNCHANGED <<max_attempt_nbr, statuses, submissions, args, fn, result>>

NextLogin ==
    \/ CheckAlreadyLoggedIn
    \/ GetEmailAndPassword
    \/ Login
    \/ CheckLoginStatus
    \/ HandlePage

\* the procedure is sequential code: a step that can be taken is taken
SpecLogin == InitLogin /\ [][NextLogin]_vars /\ WF_vars(NextLogin)

(***************************************************************************)
(* Vocabulary of the properties.                                           *)
(***************************************************************************)
\* t contains a CJK ideograph
HasCJK(t) == \E i \in 1..Len(t) : IsCJK(t[i])

\* t contains an ASCII letter
HasLetter(t) == \E i \in 1..Len(t) : IsAsciiLetter(t[i])

\* 0.0 <= x <= 1.0
InUnitInterval(x) == ~FLess(x, FZero) /\ ~FLess(FOne, x)

\* the float nearest to the quotient of two small naturals
Ratio(a, b) == FDivInt(FFromInt(a), b)

(***************************************************************************)
(* C1.  string_similarity_score of two strings that both hold no CJK       *)
(* ideograph and no ASCII letter ("" and "" among them) returns 0.0 and    *)
(* raises nothing.                                                         *)
(***************************************************************************)
C1_NoContentScoresZero ==
    (/\ fn = "string_similarity_score"
     /\ ~HasCJK(s1) /\ ~HasLetter(s1)
     /\ ~HasCJK(s2) /\ ~HasLetter(s2))
    => result = FloatResult(FZero)

(***************************************************************************)
(* C2.  For every string s that holds a CJK ideograph or an ASCII letter,  *)
(* string_similarity_score(s, s) is exactly 1.0, also when s repeats an    *)
(* English token.                                                          *)
(***************************************************************************)
C2_IdenticalScoresOne ==
    (/\ fn = "string_similarity_score"
     /\ s1 = s2
     /\ HasCJK(s1) \/ HasLetter(s1))
    => result = FloatResult(FOne)

\* s repeats an English token: more tokens than distinct tokens
RepeatsToken(t) ==
    LET eng == extract_chinese_english_parts(t).english_text
    IN  Len(SplitWhitespace(eng)) > Cardinality(SetOf(SplitWhitespace(eng)))

C2_Witness ==
    /\ fn = "string_similarity_score"
    /\ s1 = s2
    /\ RepeatsToken(s1)
    /\ result = FloatResult(FOne)

(***************************************************************************)
(* C3.  When one script is absent from both inputs and the other is        *)
(* present in at least one, string_similarity_score is the score of the    *)
(* present script: mongo_elkan_score of the English parts, or              *)
(* levenshtein_score of the Chinese parts.                                 *)
(***************************************************************************)
EnglishPart(t) == extract_chinese_english_parts(t).english_text

ChinesePart(t) == extract_chinese_english_parts(t).chinese_text

OnlyEnglish == ~HasCJK(s1) /\ ~HasCJK(s2) /\ (HasLetter(s1) \/ HasLetter(s2))

OnlyChinese == ~HasLetter(s1) /\ ~HasLetter(s2) /\ (HasCJK(s1) \/ HasCJK(s2))

\* the weights of the two scripts
EnglishWeight ==
    Max(Len(SplitWhitespace(EnglishPart(s1))), Len(SplitWhitespace(EnglishPart(s2))))

ChineseWeight == Max(Len(ChinesePart(s1)), Len(ChinesePart(s2)))

\* the claim as stated: equal exactly
C3_EqualsPresentScore ==
    fn = "string_similarity_score" =>
        /\ OnlyEnglish =>
               result \in mongo_elkan_score(EnglishPart(s1), EnglishPart(s2))
        /\ OnlyChinese =>
               result = levenshtein_score(ChinesePart(s1), ChinesePart(s2))

\* |r - x| <= x * 2^-51: r is x up to two roundings
WithinRounding(r, x) ==
    LET diff == FSub(r, x)
    IN  diff.m = <<>> \/ ~FLess(x, [s |-> 0, m |-> diff.m, e |-> diff.e + (Precision - 2)])

\* the score x after it was multiplied by its weight n and divided by n
Reweighted(x, n) == FDivInt(FMulInt(x, n), n)

\* what holds of result given the present script's score sc and weight n
IsReweighted(sc, n) ==
    /\ sc.kind = "float"
    /\ result = FloatResult(Reweighted(sc.val, n))
    /\ WithinRounding(result.val, sc.val)
    /\ n = 1 => result = sc

\* the claim as amended: equal up to the rounding of (score * weight) / weight
C3_EqualsPresentScoreRounded ==
    fn = "string_similarity_score" =>
        /\ OnlyEnglish =>
               \E sc \in mongo_elkan_score(EnglishPart(s1), EnglishPart(s2)) :
                   IsReweighted(sc, EnglishWeight)
        /\ OnlyChinese =>
               IsReweighted(levenshtein_score(ChinesePart(s1), ChinesePart(s2)),
                            ChineseWeight)

C3_Witness ==
    /\ fn = "string_similarity_score"
    /\ OnlyChinese
    /\ ChineseWeight > 1
    /\ result.kind = "float"
    /\ result /= levenshtein_score(ChinesePart(s1), ChinesePart(s2))

(***************************************************************************)
(* C4.  For all inputs string_similarity_score returns a value in [0, 1].  *)
(***************************************************************************)
C4_CompositeInUnitInterval ==
    fn = "string_similarity_score" =>
        result.kind = "float" /\ InUnitInterval(result.val)

(***************************************************************************)
(* C5.  levenshtein(s1, s2) is the classic edit distance: the least number *)
(* of single-character insertions, deletions and substitutions that turn   *)
(* s1 into s2; levenshtein("kitten", "sitting") = 3.                       *)
(***************************************************************************)
\* the edit distance by its recurrence on the first characters: equal first
\* characters are kept, otherwise one edit (a substitution, a deletion or an
\* insertion) is paid and the cheapest continuation taken
RECURSIVE EditDistance(_, _)
EditDistance(a, b) ==
    IF a = <<>> THEN Len(b)
    ELSE IF b = <<>> THEN Len(a)
    ELSE IF Head(a) = Head(b) THEN EditDistance(Tail(a), Tail(b))
    ELSE 1 + Min(EditDistance(Tail(a), Tail(b)),
                 Min(EditDistance(Tail(a), b), EditDistance(a, Tail(b))))

C5_DistanceIsEditDistance ==
    fn = "levenshtein" =>
        /\ result = IntResult(EditDistance(s1, s2))
        /\ (s1 = Kitten /\ s2 = Sitting) => result = IntResult(3)

C5_Witness ==
    /\ fn = "levenshtein"
    /\ s1 = Kitten /\ s2 = Sitting
    /\ result = IntResult(3)

(***************************************************************************)
(* C6.  levenshtein(a, b) = levenshtein(b, a) for all strings, also when   *)
(* the two have the same length and the swap of the arguments is not taken.*)
(***************************************************************************)
C6_DistanceSymmetric ==
    fn = "levenshtein" => result = IntResult(levenshtein(s2, s1))

C6_Witness ==
    /\ fn = "levenshtein"
    /\ Len(s1) = Len(s2) /\ s1 /= s2
    /\ result = IntResult(levenshtein(s2, s1))
    /\ result.val > 1

(***************************************************************************)
(* C7.  levenshtein_score("", "") returns a defined value, 1.0, and does   *)
(* not divide by zero.                                                     *)
(***************************************************************************)
C7_EmptyPairScoresOne ==
    (fn = "levenshtein_score" /\ s1 = <<>> /\ s2 = <<>>)
    => result = FloatResult(FOne)

(***************************************************************************)
(* C8.  For strings that are not both empty, levenshtein_score is          *)
(* 1 - distance / max(len) and lies in [0, 1]: the distance never exceeds  *)
(* the longer length; levenshtein_score("flaw", "lawn") = 0.5.             *)
(***************************************************************************)
C8_ScoreInUnitInterval ==
    (fn = "levenshtein_score" /\ (s1 /= <<>> \/ s2 /= <<>>)) =>
        LET distance == EditDistance(s1, s2)
            longest  == Max(Len(s1), Len(s2))
        IN  /\ result.kind = "float"
            /\ InUnitInterval(result.val)
            /\ distance <= longest
            /\ result.val = FSub(FOne, Ratio(distance, longest))
            /\ (s1 = Flaw /\ s2 = Lawn) => result.val = Ratio(1, 2)

C8_Witness ==
    /\ fn = "levenshtein_score"
    /\ s1 = Flaw /\ s2 = Lawn
    /\ result = FloatResult(Ratio(1, 2))

(***************************************************************************)
(* C9.  mongo_elkan_score is the sum, over the tokens q of the smaller     *)
(* token set, of the greatest levenshtein_score(q, r) over the tokens r of *)
(* the other set, divided by the size of that other (larger or equal) set; *)
(* the token sets are the distinct upper-cased whitespace-separated        *)
(* tokens.  "NEW YORK" against "NEW YORK CITY" gives 2/3 in either order.  *)
(***************************************************************************)
\* the distinct upper-cased whitespace-separated tokens
Tokens(t) == SetOf(SplitWhitespace(Upper(t)))

\* the smaller token set (the first one when the sizes are equal)
Query(t1, t2) ==
    IF Cardinality(Tokens(t1)) <= Cardinality(Tokens(t2)) THEN Tokens(t1) ELSE Tokens(t2)

\* the other token set
Reference(t1, t2) ==
    IF Cardinality(Tokens(t1)) <= Cardinality(Tokens(t2)) THEN Tokens(t2) ELSE Tokens(t1)

\* the greatest similarity of q to a token of R
BestMatch(q, R) ==
    LET scores == {levenshtein_score(q, r).val : r \in R}
    IN  CHOOSE x \in scores : \A y \in scores : ~FLess(x, y)

\* the sum of the best matches of the tokens, added up in the order given
RECURSIVE SumOfBest(_, _)
SumOfBest(order, R) ==
    IF order = <<>> THEN FZero
    ELSE FAdd(SumOfBest(Front(order), R), BestMatch(Last(order), R))

\* the values the score may take (a float sum depends on the order of its terms)
AlignmentScores(t1, t2) ==
    {FDivInt(SumOfBest(order, Reference(t1, t2)), Cardinality(Reference(t1, t2))) :
         order \in Orders(Query(t1, t2))}

C9_ScoreIsBestMatchMean ==
    fn = "mongo_elkan_score" =>
        /\ (Tokens(s1) /= {} \/ Tokens(s2) /= {}) =>
               /\ result.kind = "float"
               /\ result.val \in AlignmentScores(s1, s2)
        /\ (s1 = NewYork /\ s2 = NewYorkCity) => result = FloatResult(Ratio(2, 3))
        /\ (s1 = NewYorkCity /\ s2 = NewYork) => result = FloatResult(Ratio(2, 3))

C9_Witness ==
    /\ fn = "mongo_elkan_score"
    /\ s1 = NewYorkCity /\ s2 = NewYork
    /\ result = FloatResult(Ratio(2, 3))

(***************************************************************************)
(* C10.  If a token set is empty (the string is empty or only whitespace), *)
(* both sets empty included, mongo_elkan_score returns 0.0 and does not    *)
(* raise.                                                                  *)
(***************************************************************************)
C10_EmptyTokenSetScoresZero ==
    (fn = "mongo_elkan_score" /\ (Tokens(s1) = {} \/ Tokens(s2) = {}))
    => result = FloatResult(FZero)

(***************************************************************************)
(* C11.  mongo_elkan_score is symmetric: for all s1, s2 with non-empty     *)
(* token sets, mongo_elkan_score(s1, s2) is mongo_elkan_score(s2, s1),     *)
(* also when the two token sets have the same size.                        *)
(***************************************************************************)
C11_AlignmentSymmetric ==
    (fn = "mongo_elkan_score" /\ Tokens(s1) /= {} /\ Tokens(s2) /= {})
    => result \in mongo_elkan_score(s2, s1)

(***************************************************************************)
(* C12.  For all s1, s2 mongo_elkan_score(s1, s2) returns a value in       *)
(* [0, 1].                                                                 *)
(***************************************************************************)
C12_AlignmentInUnitInterval ==
    fn = "mongo_elkan_score" =>
        result.kind = "float" /\ InUnitInterval(result.val)

(***************************************************************************)
(* C13.  For every text, the empty one included,                           *)
(* extract_chinese_english_parts(text) returns as chinese_text the maximal *)
(* runs of code points U+4E00..U+9FFF concatenated without separator, and  *)
(* as english_text the maximal runs of ASCII letters joined by single      *)
(* spaces, both in order of appearance; every other character is dropped   *)
(* and ends a run; no run is reordered or removed as a duplicate.          *)
(* "Hello" U+4E16 U+754C "123" gives (U+4E16 U+754C, "Hello").             *)
(***************************************************************************)
\* the sequences concatenated in order
RECURSIVE Flatten(_)
Flatten(pieces) ==
    IF pieces = <<>> THEN <<>> ELSE Head(pieces) \o Flatten(Tail(pieces))

\* runs concatenated without separator: the ideographs of the text, in order
IdeographsOf(text) == SelectSeq(text, IsCJK)

\* what the i-th character contributes to the English part: nothing unless
\* it is a letter; a letter that begins a run other than the first run is
\* preceded by one space
LetterPiece(text, i) ==
    IF ~IsAsciiLetter(text[i]) THEN <<>>
    ELSE IF /\ i > 1 /\ ~IsAsciiLetter(text[i - 1])
            /\ \E k \in 1..(i - 1) : IsAsciiLetter(text[k])
         THEN <<32, text[i]>>
         ELSE <<text[i]>>

LetterRunsOf(text) == Flatten([i \in 1..Len(text) |-> LetterPiece(text, i)])

C13_PartsAreRunsInOrder ==
    fn = "extract_chinese_english_parts" =>
        /\ result = PartsResult([chinese_text |-> IdeographsOf(s1),
                                 english_text |-> LetterRunsOf(s1)])
        /\ s1 = HelloWorld123 =>
               result = PartsResult([chinese_text |-> <<19990, 30028>>,
                                     english_text |-> <<72, 101, 108, 108, 111>>])

\* a text with two equal runs of letters around an ideograph: both are kept
C13_Witness ==
    /\ fn = "extract_chinese_english_parts"
    /\ s1 = <<97, 20013, 97>>
    /\ result = PartsResult([chinese_text |-> <<20013>>, english_text |-> <<97, 32, 97>>])

(***************************************************************************)
(* C14.  For every string s: levenshtein(s, "") = len(s) and               *)
(* levenshtein("", s) = len(s); in particular levenshtein("", "") = 0.     *)
(***************************************************************************)
C14_DistanceToEmptyIsLength ==
    fn = "levenshtein" =>
        /\ s2 = <<>> => result = IntResult(Len(s1))
        /\ s1 = <<>> => result = IntResult(Len(s2))

\* the empty string comes first, so that the arguments are exchanged
C14_Witness ==
    /\ fn = "levenshtein"
    /\ s1 = <<>> /\ Len(s2) > 1
    /\ result = IntResult(Len(s2))

(***************************************************************************)
(* C15.  For every string a: levenshtein(a, a) = 0, and for every          *)
(* non-empty a: levenshtein_score(a, a) = 1.0.                             *)
(***************************************************************************)
C15_SelfDistanceZeroScoreOne ==
    /\ (fn = "levenshtein" /\ s1 = s2) => result = IntResult(0)
    /\ (fn = "levenshtein_score" /\ s1 = s2 /\ s1 /= <<>>) => result = FloatResult(FOne)

C15_Witness ==
    /\ fn = "levenshtein_score"
    /\ s1 = s2 /\ Len(s1) > 1
    /\ result = FloatResult(FOne)

(***************************************************************************)
(* C16.  For all strings a, b, c:                                          *)
(* levenshtein(a, c) <= levenshtein(a, b) + levenshtein(b, c).             *)
(***************************************************************************)
\* the strings tried as the intermediate b
MidLen == 2

Intermediates == UNION {StringsOfLen(n) : n \in 0..MidLen}

C16_TriangleInequality ==
    fn = "levenshtein" =>
        \A b \in Intermediates :
            result.val <= levenshtein(s1, b) + levenshtein(b, s2)

\* the inequality is tight through a third string, at a distance above 1
C16_Witness ==
    /\ fn = "levenshtein"
    /\ result.kind = "int" /\ result.val > 1
    /\ \E b \in Intermediates \ {s1, s2} :
           result.val = levenshtein(s1, b) + levenshtein(b, s2)

(***************************************************************************)
(* C19.  When at least one of s1, s2 holds a CJK ideograph or an ASCII     *)
(* letter, every call of levenshtein_score made during                     *)
(* string_similarity_score(s1, s2), the direct one on the Chinese parts    *)
(* and the inner ones of mongo_elkan_score on English tokens, has a        *)
(* non-empty argument, and so no division by zero happens, also when the   *)
(* part of one side is empty.                                              *)
(***************************************************************************)
HasContent(t) == HasCJK(t) \/ HasLetter(t)

C19_InnerCallsNeverBothEmpty ==
    (HasContent(s1) \/ HasContent(s2)) =>
        /\ fn = "string_similarity_score: calls" =>
               \A call \in result.val : call[1] /= <<>> \/ call[2] /= <<>>
        /\ fn = "string_similarity_score" => result.kind = "float"

\* one side has no letter: an inner call compares '' with a token
C19_Witness ==
    /\ fn = "string_similarity_score: calls"
    /\ ~HasContent(s1) /\ HasLetter(s2)
    /\ \E call \in result.val : call[1] = <<>> /\ call[2] /= <<>>

(***************************************************************************)
(* C18.  get_days_from_today never raises.  When date_str cannot be parsed *)
(* with date_format (strptime raises, whatever the exception: an argument  *)
(* that is None, a malformed format, a text that does not match, a date    *)
(* that is not of the calendar) it returns NaN; when it can, it returns an *)
(* integer, the number of whole days from that date to today_dt.  So the   *)
(* eight digits of a calendar date under the default format give an        *)
(* integer, and the result is a float exactly when parsing has failed.     *)
(***************************************************************************)
\* t is the eight digits YYYYMMDD of a date of the calendar
IsCalendarText(t) ==
    /\ Len(t) = 8
    /\ \A k \in 1..8 : IsDigit(t[k])
    /\ NumberAt(t, 1, 4) >= 1
    /\ NumberAt(t, 5, 6) \in 1..12
    /\ NumberAt(t, 7, 8) >= 1
    /\ NumberAt(t, 7, 8) <= DaysInMonth(NumberAt(t, 1, 4), NumberAt(t, 5, 6))

Succeeded(k) == k \in 1..Len(statuses) /\ statuses[k]

C20_BoundedAndChecked ==
    /\ Succeeded(1) => submissions = 0 /\ pc = "done"
    /\ submissions <= max_attempt_nbr
    /\ pc = "status" => Len(statuses) = submissions
    /\ pc \in {"credentials", "login", "page", "done"} =>
           Len(statuses) = submissions + 1
    /\ \A k \in 1..Len(statuses) :
           Succeeded(k) => k = Len(statuses) /\ pc = "done" /\ submissions = k - 1
    /\ (pc = "done" /\ ~Succeeded(Len(statuses))) => submissions = max_attempt_nbr
    /\ pc \in {"start", "credentials", "login", "status", "page", "done"}

IsBlank(t) == \A k \in 1..Len(t) : IsSpace(t[k])

\* "N/A" or "NA", each letter in either case
IsPlaceholder(t) ==
    \/ Len(t) = 2 /\ t[1] \in {78, 110} /\ t[2] \in {65, 97}
    \/ Len(t) = 3 /\ t[1] \in {78, 110} /\ t[2] = 47 /\ t[3] \in {65, 97}

C17_TrueExactlyForBlankOrPlaceholder ==
    fn = "is_null_whitespace_or_na" =>
        result = BoolResult(\/ input_str = None
                            \/ /\ input_str /= None
                               /\ \/ IsBlank(StrOf(input_str))
                                  \/ IsPlaceholder(StrOf(input_str)))

C17_Witness ==
    /\ fn = "is_null_whitespace_or_na"
    /\ input_str = None
    /\ result = BoolResult(TRUE)

=============================================================================
